---- MODULE Spec2Model ----
(***************************************************************************)
(* Model of src/model.py: Model.__init__, Model.forward and               *)
(* Model.calculate_loss of the graph capsule classifier.                   *)
(*                                                                         *)
(* Numbers are fixed point.  Capsule components, norms, decoder outputs    *)
(* and normalized targets are integers in units of 1/Scale.  The raw       *)
(* reconstruction targets are integers in units of 1e-6.  lambda_val and   *)
(* reg_scale are numerators over ArgDen.  A loss is a record               *)
(* [nan, num, den]; tensors are sequences of sequences.                    *)
(***************************************************************************)
EXTENDS Integers, Sequences, FiniteSets, TLC

VARIABLES
    args,                   \* the configuration record (args.*)
    self,                   \* the fields Model.__init__ sets
    adj,                    \* input: b x n x n adjacency
    label,                  \* input: b labels
    reconstructs,           \* input: b x recon_dim targets (units of 1e-6)
    call2,                  \* label and reconstructs of a second call on the same batch
    ext,                    \* outputs of the collaborators outside model.py
    pc,                     \* position inside forward
    layer_i,                \* number of GCN layers applied so far
    masks,                  \* line 77
    number_of_nodes,        \* line 78
    hidden_list,            \* shapes appended at line 90
    hidden_shape,           \* shape after line 92
    attn,                   \* line 96
    weighted,               \* line 97
    class_capsule_output,   \* line 102
    res,                    \* what calculate_loss computed for this call
    res2,                   \* the same for the second call
    ret,                    \* what forward returned
    ret2

vars == <<args, self, adj, label, reconstructs, call2, ext, pc, layer_i, masks,
          number_of_nodes, hidden_list, hidden_shape, attn, weighted,
          class_capsule_output, res, res2, ret, ret2>>

(***************************************************************************)
(* Bounds of the model and scales of the fixed-point encoding.             *)
(***************************************************************************)
MaxNodes == 2
MaxLayers == 3
MaxBatch == 2

Scale == 10 * 10
ArgDen == 1 + 1

\* Program constants.
m_plus == 90
m_minus == 10
RecThreshold == 10
EpsilonInv == 100000

(***************************************************************************)
(* Arithmetic on sequences.                                                *)
(***************************************************************************)
RECURSIVE SumSeq(_)
SumSeq(s) == IF s = <<>> THEN 0 ELSE Head(s) + SumSeq(Tail(s))

RECURSIVE ProdSeq(_)
ProdSeq(s) == IF s = <<>> THEN 1 ELSE Head(s) * ProdSeq(Tail(s))

Max2(a, b) == IF a >= b THEN a ELSE b

\* torch.max(x, dim)[0] over a non-empty row
RECURSIVE MaxSeq(_)
MaxSeq(s) == IF Len(s) = 1 THEN s[1] ELSE Max2(Head(s), MaxSeq(Tail(s)))

\* torch.max(x, dim)[1]: the (0-based) index of the first maximal value
ArgMaxSeq(s) == (CHOOSE i \in 1..Len(s) :
                    /\ s[i] = MaxSeq(s)
                    /\ \A j \in 1..(i - 1) : s[j] # s[i]) - 1

\* torch.sqrt in fixed point, rounded to the nearest unit
ISqrt(x) == CHOOSE r \in 0..(2 * Scale) :
                /\ (2 * r - 1) * (2 * r - 1) <= 4 * x
                /\ 4 * x < (2 * r + 1) * (2 * r + 1)

(***************************************************************************)
(* Tensor shapes.                                                          *)
(***************************************************************************)
\* Tensor.squeeze(): every axis of size 1 is dropped
squeeze(shape) == SelectSeq(shape, LAMBDA d : d # 1)

\* Tensor.reshape(b, n, c, -1): the last axis is inferred
reshape_infer(shape, lead) ==
    IF ProdSeq(lead) > 0 /\ ProdSeq(shape) % ProdSeq(lead) = 0
    THEN Append(lead, ProdSeq(shape) \div ProdSeq(lead))
    ELSE <<>>

\* torch.cat(list, dim=2) of 4-axis shapes (0-based axis 2)
cat_dim2(shapes) ==
    << shapes[1][1], shapes[1][2],
       SumSeq([i \in 1..Len(shapes) |-> shapes[i][3]]),
       shapes[1][4] >>

(***************************************************************************)
(* Model.__init__                                                          *)
(***************************************************************************)
gcn_input_dim(a, num_features) == a.node_embedding_size * Len(num_features)

attention_in(a) == a.node_embedding_size * a.num_gcn_channels * a.num_gcn_layers

\* _init_gcn: the (in, out) widths of the GCN layers
gcn_layers(a, num_features) ==
    [i \in 1..a.num_gcn_layers |->
        IF i = 1
        THEN << gcn_input_dim(a, num_features),
                a.node_embedding_size * a.num_gcn_channels >>
        ELSE << a.node_embedding_size * a.num_gcn_channels,
                a.node_embedding_size * a.num_gcn_channels >>]

\* _init_capsules: the constructor arguments of the two capsule layers
graph_capsule_ctor(a) ==
    << a.num_gcn_channels * a.num_gcn_layers, a.node_embedding_size,
       a.num_graph_capsules, a.graph_embedding_size >>

class_capsule_ctor(a, num_classes) ==
    << a.num_graph_capsules, a.graph_embedding_size,
       num_classes, a.graph_embedding_size >>

\* _init_reconstruction_layers: width of the decoder's hidden layer
recon_hidden(a, num_features) == (gcn_input_dim(a, num_features) * 2) \div 3

ModelInit(a, num_features, num_classes, recon_dim, theta) ==
    [ num_features   |-> num_features,
      num_classes    |-> num_classes,
      recon_dim      |-> recon_dim,
      gcn_input_dim  |-> gcn_input_dim(a, num_features),
      attention_in   |-> attention_in(a),
      gcn_layers     |-> gcn_layers(a, num_features),
      graph_capsule  |-> graph_capsule_ctor(a),
      class_capsule  |-> class_capsule_ctor(a, num_classes),
      recon_hidden   |-> recon_hidden(a, num_features),
      theta          |-> theta ]

(***************************************************************************)
(* Model.forward, lines 77-80: the node mask                               *)
(***************************************************************************)
\* masks = torch.max(adj, dim=-1, keepdim=True)[0]
compute_masks(a) == [g \in 1..Len(a) |-> [i \in 1..Len(a[g]) |-> MaxSeq(a[g][i])]]

\* number_of_nodes = torch.sum(masks, dim=1, keepdim=True)
compute_number_of_nodes(m) == [g \in 1..Len(m) |-> SumSeq(m[g])]

(***************************************************************************)
(* Model.forward, lines 94-97: masked attention                            *)
(***************************************************************************)
NegInf == [inf |-> TRUE, v |-> 0]

\* attn.masked_fill(masks.eq(0), -np.inf) on one graph
masked_fill_zero(logits, m) ==
    [i \in 1..Len(logits) |->
        IF m[i] = 0 THEN [inf |-> FALSE, v |-> 0] ELSE [inf |-> FALSE, v |-> logits[i]]]

masked_fill(logits, m) ==
    [i \in 1..Len(logits) |->
        IF m[i] = 0 THEN NegInf ELSE [inf |-> FALSE, v |-> logits[i]]]

\* exp(d) for d <= 0 in units of 1/Scale, result in units of 1/1000
ExpFx(d) ==
    CASE d = 0 -> 1000
      [] d < 0 /\ d >= -50 -> 607
      [] d < -50 /\ d >= -100 -> 368
      [] d < -100 /\ d >= -150 -> 223
      [] d < -150 /\ d >= -200 -> 135
      [] d < -200 /\ d >= -400 -> 18
      [] OTHER -> 0

NaN == [nan |-> TRUE, num |-> 0, den |-> 1]

\* F.softmax(x, dim=1) on one graph: exp(x - max) / sum; exp(-inf) = 0, and
\* a row of -inf only gives -inf - (-inf) = nan in every position
softmax(x) ==
    LET fin == {i \in 1..Len(x) : ~x[i].inf}
    IN  IF fin = {}
        THEN [i \in 1..Len(x) |-> NaN]
        ELSE LET mx == CHOOSE v \in {x[i].v : i \in fin} :
                            \A i \in fin : x[i].v <= v
                 e  == [i \in 1..Len(x) |->
                            IF x[i].inf THEN 0 ELSE ExpFx(x[i].v - mx)]
             IN  [i \in 1..Len(x) |->
                    [nan |-> FALSE, num |-> e[i], den |-> SumSeq(e)]]

\* hidden_representations * attn * number_of_nodes for one node
weigh(h, w, non) ==
    IF w.nan THEN NaN ELSE [nan |-> FALSE, num |-> h * w.num * non, den |-> w.den]

(***************************************************************************)
(* Model.forward, lines 99-102: the capsule layers (layer.py) and squeeze  *)
(***************************************************************************)
\* shape of the class capsule layer's output: b x num_classes x graph_embedding_size
class_capsule_shape(b, slf) == << b, slf.class_capsule[3], slf.class_capsule[4] >>

\* class_capsule_output.squeeze(); a graph whose weighted input holds a nan
\* gives nan capsules
squeeze_output(b, slf, data, w) ==
    [ shape |-> squeeze(class_capsule_shape(b, slf)),
      data  |-> data,
      nan   |-> [g \in 1..b |-> \E i \in 1..Len(w[g]) : w[g][i].nan] ]

(***************************************************************************)
(* Model.calculate_loss, lines 115-128: magnitudes and margin loss         *)
(***************************************************************************)
\* v_mag = torch.sqrt((capsule_input ** 2).sum(dim=2))
v_mag_of(data) ==
    [g \in 1..Len(data) |-> [k \in 1..Len(data[g]) |->
        ISqrt(SumSeq([j \in 1..Len(data[g][k]) |-> data[g][k][j] * data[g][k][j]]))]]

\* pred = v_mag.max(dim=1)[1]
pred_of(v) == [g \in 1..Len(v) |-> ArgMaxSeq(v[g])]

\* max_l = torch.max(m_plus - v_mag, zero) ** 2
max_l_of(v) == Max2(m_plus - v, 0) * Max2(m_plus - v, 0)

\* max_r = torch.max(v_mag - m_minus, zero) ** 2
max_r_plus(v) == Max2(v - m_plus, 0) * Max2(v - m_plus, 0)

max_r_of(v) == Max2(v - m_minus, 0) * Max2(v - m_minus, 0)

\* T_c = zeros(batch_size, num_class); T_c[arange(batch_size), target] = 1
one_hot_shifted(batch_size, num_class, target) ==
    [g \in 1..batch_size |-> [k \in 1..num_class |->
        IF k - 1 = (target[g] + 1) % num_class THEN 1 ELSE 0]]

one_hot(batch_size, num_class, target) ==
    [g \in 1..batch_size |-> [k \in 1..num_class |->
        IF k - 1 = target[g] THEN 1 ELSE 0]]

\* L_c = (T_c * max_l + lambda_val * (1 - T_c) * max_r).sum(dim=1), times ArgDen
L_c_of(T_c, v, lambda_val) ==
    [g \in 1..Len(v) |->
        SumSeq([k \in 1..Len(v[g]) |->
            ArgDen * T_c[g][k] * max_l_of(v[g][k])
            + lambda_val * (1 - T_c[g][k]) * max_r_of(v[g][k])])]

(***************************************************************************)
(* Model.calculate_loss, lines 130-135: masking and the decoder            *)
(***************************************************************************)
\* capsule_masked = (capsule_input * T_c.unsqueeze(2)).sum(dim=1)
capsule_masked_of(data, T_c) ==
    [g \in 1..Len(data) |-> [j \in 1..Len(data[g][1]) |->
        SumSeq([k \in 1..Len(data[g]) |-> data[g][k][j] * T_c[g][k]])]]

\* the learned weights and biases of the two nn.Linear layers, by parameter set
W1(theta, h, j) == ((h + j + theta) % 3) - 1
b1(theta, h) == 20 * (theta - 1)
W2(theta, r, h) == ((r + 2 * h + theta) % 3) - 1
b2(theta, r) == 100 * ((r + theta) % 3) - 100

relu(x) == Max2(x, 0)

\* torch.sigmoid on units of 1/Scale, rounded to the values of a coarse table
sigmoid(z) ==
    CASE z <= -300 -> 3
      [] z > -300 /\ z <= -150 -> 12
      [] z > -150 /\ z <= -50 -> 27
      [] z > -50 /\ z < 50 -> 50
      [] z >= 50 /\ z < 150 -> 73
      [] z >= 150 /\ z < 300 -> 88
      [] OTHER -> 97

\* sigmoid(reconstruction_layer_2(relu(reconstruction_layer_1(capsule_masked))))
reconstruction_output_of(slf, cm) ==
    [g \in 1..Len(cm) |->
        LET hid == [h \in 1..slf.recon_hidden |->
                       relu(SumSeq([j \in 1..Len(cm[g]) |-> W1(slf.theta, h, j) * cm[g][j]])
                            + b1(slf.theta, h))]
        IN  [r \in 1..slf.recon_dim |->
                sigmoid(SumSeq([h \in 1..slf.recon_hidden |-> W2(slf.theta, r, h) * hid[h]])
                        + b2(slf.theta, r))]]

(***************************************************************************)
(* Model.calculate_loss, lines 137-146: reconstruction loss                *)
(***************************************************************************)
\* neg_indicator = where(reconstructs < 1e-5, 1, 0)
neg_indicator_of(recs) ==
    [g \in 1..Len(recs) |-> [r \in 1..Len(recs[g]) |->
        IF recs[g][r] < RecThreshold THEN 1 ELSE 0]]

\* t / (mx + epsilon) in units of 1/Scale, rounded to nearest.  With
\* epsilon = 1/EpsilonInv units the exact quotient is
\*   floor(((2 t Scale + mx) EpsilonInv + 1) / (2 mx EpsilonInv + 2)),
\* which for quotients below EpsilonInv is the rounded t Scale / mx, one less
\* on an exact tie; mx = 0 divides by epsilon alone.
norm_div(t, mx) ==
    IF mx = 0
    THEN t * Scale * EpsilonInv
    ELSE LET X == 2 * t * Scale + mx
             M == 2 * mx
         IN  IF X % M = 0 THEN (X \div M) - 1 ELSE X \div M

\* reconstruct_value = reconstructs / (reconstructs.max(dim=1) + epsilon)
reconstruct_value_of(recs) ==
    [g \in 1..Len(recs) |-> [r \in 1..Len(recs[g]) |->
        norm_div(recs[g][r], MaxSeq(recs[g]))]]

\* diff = (reconstruction_output - reconstruct_value) ** 2
diff_of(out, rv) ==
    [g \in 1..Len(out) |-> [r \in 1..Len(out[g]) |->
        (out[g][r] - rv[g][r]) * (out[g][r] - rv[g][r])]]

\* torch.max(diff * indicator, dim=-1)[0]
indicator_max_all(diff, ind) ==
    [g \in 1..Len(diff) |-> MaxSeq(diff[g])]

indicator_max(diff, ind) ==
    [g \in 1..Len(diff) |->
        MaxSeq([r \in 1..Len(diff[g]) |-> diff[g][r] * ind[g][r]])]

(***************************************************************************)
(* Model.calculate_loss as a whole                                         *)
(***************************************************************************)
Raised(input_shape) ==
    [ status |-> "IndexError",
      batch_size |-> IF Len(input_shape) >= 1 THEN input_shape[1] ELSE 0,
      num_class |-> IF Len(input_shape) >= 2 THEN input_shape[2] ELSE 0,
      v_mag |-> <<>>, pred |-> <<>>, T_c |-> <<>>, capsule_masked |-> <<>>,
      reconstruction_output |-> <<>>, reconstruct_value |-> <<>>,
      neg_loss |-> <<>>, pos_loss |-> <<>>,
      margin_loss |-> NaN, reconstruction_loss |-> NaN, loss |-> NaN ]

loss_body(a, slf, capsule_input, target, recs, pred) ==
    LET input_shape == capsule_input.shape
        batch_size == input_shape[1]
        num_class == input_shape[2]
        anynan == \E g \in 1..Len(capsule_input.nan) : capsule_input.nan[g]
        v_mag == v_mag_of(capsule_input.data)
        T_c == one_hot(batch_size, num_class, target)
        L_c == L_c_of(T_c, v_mag, a.lambda_val)
        capsule_masked == capsule_masked_of(capsule_input.data, T_c)
        reconstruction_output == reconstruction_output_of(slf, capsule_masked)
        neg_indicator == neg_indicator_of(recs)
        pos_indicator == [g \in 1..Len(recs) |-> [r \in 1..Len(recs[g]) |->
                             1 - neg_indicator[g][r]]]
        reconstruct_value == reconstruct_value_of(recs)
        diff == diff_of(reconstruction_output, reconstruct_value)
        neg_loss == indicator_max(diff, neg_indicator)
        pos_loss == indicator_max(diff, pos_indicator)
        rsum == SumSeq([g \in 1..batch_size |-> pos_loss[g] + neg_loss[g]])
        margin_loss == IF anynan THEN NaN
                       ELSE [nan |-> FALSE, num |-> SumSeq(L_c),
                             den |-> batch_size * Scale * Scale * ArgDen]
        reconstruction_loss ==
                       IF anynan THEN NaN
                       ELSE [nan |-> FALSE, num |-> rsum,
                             den |-> batch_size * Scale * Scale]
    IN  [ status |-> "ok",
          batch_size |-> batch_size,
          num_class |-> num_class,
          v_mag |-> v_mag,
          pred |-> pred,
          T_c |-> T_c,
          capsule_masked |-> capsule_masked,
          reconstruction_output |-> reconstruction_output,
          reconstruct_value |-> reconstruct_value,
          neg_loss |-> neg_loss,
          pos_loss |-> pos_loss,
          margin_loss |-> margin_loss,
          reconstruction_loss |-> reconstruction_loss,
          \* loss = margin_loss + reconstruction_loss * args.reg_scale
          loss |-> IF anynan THEN NaN
                   ELSE [nan |-> FALSE,
                         num |-> margin_loss.num + rsum * a.reg_scale,
                         den |-> batch_size * Scale * Scale * ArgDen] ]

\* the rank checks of lines 111, 112 and 115, the index check of line 125
loss_raises(capsule_input, target, recs) ==
    \/ Len(squeeze(capsule_input.shape)) < 3
    \/ Len(target) # capsule_input.shape[1]
    \/ \E g \in 1..Len(target) : target[g] < 0 \/ target[g] >= capsule_input.shape[2]
    \/ Len(recs) # capsule_input.shape[1]

calculate_loss_label_pred(a, slf, capsule_input, target, recs) ==
    IF loss_raises(capsule_input, target, recs)
    THEN Raised(capsule_input.shape)
    ELSE loss_body(a, slf, capsule_input, target, recs, target)

calculate_loss(a, slf, capsule_input, target, recs) ==
    IF loss_raises(capsule_input, target, recs)
    THEN Raised(capsule_input.shape)
    ELSE loss_body(a, slf, capsule_input, target, recs,
                   pred_of(v_mag_of(capsule_input.data)))

\* line 106: the tuple forward returns, or the exception that left it
forward_return(out, r, lbl) ==
    IF r.status = "ok"
    THEN [ raised |-> FALSE, class_capsule_output |-> out, loss |-> r.loss,
           margin_loss |-> r.margin_loss,
           reconstruction_loss |-> r.reconstruction_loss,
           label |-> lbl, pred |-> r.pred ]
    ELSE [ raised |-> TRUE, class_capsule_output |-> out, loss |-> NaN,
           margin_loss |-> NaN, reconstruction_loss |-> NaN,
           label |-> lbl, pred |-> <<>> ]

(***************************************************************************)
(* The batches, configurations and collaborator outputs of the model.      *)
(***************************************************************************)
DefArgs ==
    [ node_embedding_size |-> 2, num_gcn_channels |-> 2, num_gcn_layers |-> 1,
      num_graph_capsules |-> 2, graph_embedding_size |-> 2,
      lambda_val |-> 1, reg_scale |-> 1 ]

EdgeWeights == {1, 2}
LogitVals == {-50, 50}
CapVals == <<0, 10, 90, -60>>
ClassCapsules ==
    { << <<90, 0>>, <<0, 10>> >>, << <<0, 10>>, <<90, 0>> >>,
      << <<90, 0>>, <<0, 90>> >>, << <<-60, 60>>, <<0, 10>> >>,
      << <<0, -10>>, <<6, 8>> >> }
LambdaVals == {0, 1, 2}
TargetRows == { <<0, 0, 0>>, <<1, 20, 0>>, <<5, 8, 2>>, <<20, 40, 10>> }
ScenarioRow == <<1000000, 0, 500000>>
RescaleBy == {1, 2, 100}

\* n x n adjacency matrices: every 0/1 matrix, with every edge weight
WeightedAdj(n) ==
    { [i \in 1..n |-> [j \in 1..n |-> w * A[i][j]]] :
        A \in [1..n -> [1..n -> {0, 1}]], w \in EdgeWeights }

FullAdj(n) == [i \in 1..n |-> [j \in 1..n |-> IF i = j THEN 0 ELSE 1]]

PairAdj == { <<<<0, 0>>, <<0, 0>>>>, <<<<0, 1>>, <<1, 0>>>>, <<<<0, 2>>, <<0, 0>>>> }

FeatPattern(p, b, n) ==
    [g \in 1..b |-> [i \in 1..n |-> IF (g + i + p) % 2 = 0 THEN 50 ELSE -50]]

LogitPattern(b, n) == [g \in 1..b |-> [i \in 1..n |-> IF (g + i) % 2 = 0 THEN 50 ELSE -50]]

CapsPattern(p, b, c, d) ==
    [g \in 1..b |-> [k \in 1..c |-> [j \in 1..d |->
        CapVals[((p + g + 2 * k + 3 * j) % 4) + 1]]]]

Features(nf) == [i \in 1..nf |-> 4]

Rescale(recs, k) == [g \in 1..Len(recs) |-> [r \in 1..Len(recs[g]) |-> k * recs[g][r]]]

Rotate(recs) == [g \in 1..Len(recs) |-> recs[(g % Len(recs)) + 1]]

Input(a, nf, nc, theta, A, lbl, recs, c2, logits, feat, caps) ==
    [ args |-> a, num_features |-> Features(nf), num_classes |-> nc, theta |-> theta,
      adj |-> A, label |-> lbl, reconstructs |-> recs, call2 |-> c2,
      ext |-> [logits |-> logits, feat |-> feat, caps |-> caps] ]

Same(lbl, recs) == [label |-> lbl, reconstructs |-> recs]

Zeros(b) == [g \in 1..b |-> 0]

\* the second calls: the same targets rescaled, or other targets and labels
Call2s(b, recs) ==
    { [label |-> l2, reconstructs |-> Rescale(recs, k)] :
        l2 \in {Zeros(b), [g \in 1..b |-> g % 2]}, k \in RescaleBy }
    \cup { [label |-> [g \in 1..b |-> g % 2], reconstructs |-> Rotate(recs)] }

NoRes == Raised(<<>>)
NoRet == forward_return(<<>>, NoRes, <<>>)

\* the state after Model.__init__, with the batch forward is called on
Start(in) ==
    /\ args = in.args
    /\ self = ModelInit(in.args, in.num_features, in.num_classes,
                        Len(in.reconstructs[1]), in.theta)
    /\ adj = in.adj
    /\ label = in.label
    /\ reconstructs = in.reconstructs
    /\ call2 = in.call2
    /\ ext = in.ext
    /\ pc = "start"
    /\ layer_i = 0
    /\ masks = <<>>
    /\ number_of_nodes = <<>>
    /\ hidden_list = <<>>
    /\ hidden_shape = <<>>
    /\ attn = <<>>
    /\ weighted = <<>>
    /\ class_capsule_output = [shape |-> <<>>, data |-> <<>>, nan |-> <<>>]
    /\ res = NoRes
    /\ res2 = NoRes
    /\ ret = NoRet
    /\ ret2 = NoRet

\* one graph of every adjacency
InitOneGraph ==
    \E n \in 1..MaxNodes : \E A \in WeightedAdj(n) :
    \E lg \in [1..n -> LogitVals] :
        Start(Input(DefArgs, 1, 2, 1, <<A>>, <<0>>, <<ScenarioRow>>,
                    Same(<<0>>, <<ScenarioRow>>), <<lg>>, FeatPattern(0, 1, n),
                    CapsPattern(0, 1, 2, 2)))

\* several graphs of a few adjacencies
InitGraphs ==
    \E b \in 2..MaxBatch : \E A \in [1..b -> PairAdj] :
    \E lg \in [1..b -> [1..2 -> LogitVals]] :
        Start(Input(DefArgs, 1, 2, 1, A, Zeros(b), [g \in 1..b |-> ScenarioRow],
                    Same(Zeros(b), [g \in 1..b |-> ScenarioRow]), lg,
                    FeatPattern(0, b, 2), CapsPattern(0, b, 2, 2)))

\* configurations and batch sizes on fully connected graphs of three nodes
InitShapes ==
    \E L \in 1..MaxLayers : \E c \in 1..2 : \E d \in 1..2 : \E D \in 1..2 :
    \E nf \in 1..2 : \E nc \in 1..3 : \E b \in 1..MaxBatch :
        Start(Input([DefArgs EXCEPT !.num_gcn_layers = L, !.num_gcn_channels = c,
                                    !.node_embedding_size = d,
                                    !.graph_embedding_size = D],
                    nf, nc, 1, [g \in 1..b |-> FullAdj(3)], Zeros(b),
                    [g \in 1..b |-> ScenarioRow],
                    Same(Zeros(b), [g \in 1..b |-> ScenarioRow]),
                    LogitPattern(b, 3), FeatPattern(0, b, 3),
                    CapsPattern(0, b, nc, D)))

\* class capsules, labels and lambda_val
InitMargin ==
    \E b \in 2..MaxBatch : \E lam \in LambdaVals : \E lbl \in [1..b -> 0..1] :
    \E caps \in [1..b -> ClassCapsules] :
        Start(Input([DefArgs EXCEPT !.lambda_val = lam], 1, 2, 1,
                    [g \in 1..b |-> FullAdj(2)], lbl, [g \in 1..b |-> <<1, 20, 0>>],
                    Same(lbl, [g \in 1..b |-> <<1, 20, 0>>]),
                    LogitPattern(b, 2), FeatPattern(0, b, 2), caps))

\* reconstruction targets, decoder parameters and a second call
InitRecon ==
    \E b \in 2..MaxBatch : \E theta \in {1, 2} : \E p \in {0, 1} :
    \E recs \in [1..b -> TargetRows] : \E c2 \in Call2s(b, recs) :
        Start(Input([DefArgs EXCEPT !.reg_scale = theta], 2, 2, theta,
                    [g \in 1..b |-> FullAdj(2)], Zeros(b), recs, c2,
                    LogitPattern(b, 2), FeatPattern(0, b, 2),
                    CapsPattern(p, b, 2, 2)))

Init == InitOneGraph \/ InitGraphs \/ InitShapes \/ InitMargin \/ InitRecon

\* b, n, _ = adj.shape
b_of(a) == Len(a)
n_of(a) == Len(a[1])

(***************************************************************************)
(* The steps of Model.forward.                                             *)
(***************************************************************************)
\* lines 77-80
ComputeMasks ==
    /\ pc = "start"
    /\ masks' = compute_masks(adj)
    /\ number_of_nodes' = compute_number_of_nodes(compute_masks(adj))
    /\ pc' = "gcn"
    /\ UNCHANGED <<args, self, adj, label, reconstructs, call2, ext, layer_i,
                   hidden_list, hidden_shape, attn, weighted,
                   class_capsule_output, res, res2, ret, ret2>>

\* the shape a GCN layer of widths (in, out) gives b x n features
gcn_out_shape(a, widths) == << b_of(a), n_of(a), widths[2] >>

\* lines 86-90, one iteration: reshape(b, n, c, -1) of the layer's output
reshaped_wide(a, ar, widths) ==
    reshape_infer(gcn_out_shape(a, widths), << b_of(a), n_of(a), 1 >>)

reshaped(a, ar, widths) ==
    reshape_infer(gcn_out_shape(a, widths), << b_of(a), n_of(a), ar.num_gcn_channels >>)

GcnLayer ==
    /\ pc = "gcn"
    /\ layer_i < Len(self.gcn_layers)
    /\ layer_i' = layer_i + 1
    /\ hidden_list' = Append(hidden_list, reshaped(adj, args, self.gcn_layers[layer_i + 1]))
    /\ UNCHANGED <<args, self, adj, label, reconstructs, call2, ext, pc, masks,
                   number_of_nodes, hidden_shape, attn, weighted,
                   class_capsule_output, res, res2, ret, ret2>>

\* line 92
ConcatHidden ==
    /\ pc = "gcn"
    /\ layer_i = Len(self.gcn_layers)
    /\ hidden_shape' = cat_dim2(hidden_list)
    /\ pc' = "attn"
    /\ UNCHANGED <<args, self, adj, label, reconstructs, call2, ext, layer_i, masks,
                   number_of_nodes, hidden_list, attn, weighted,
                   class_capsule_output, res, res2, ret, ret2>>

\* line 96 on the whole batch
attend(logits, m) == [g \in 1..Len(logits) |-> softmax(masked_fill(logits[g], m[g]))]

\* lines 94-97
Attend ==
    /\ pc = "attn"
    /\ attn' = attend(ext.logits, masks)
    /\ weighted' = [g \in 1..b_of(adj) |-> [i \in 1..n_of(adj) |->
                       weigh(ext.feat[g][i], attend(ext.logits, masks)[g][i],
                             number_of_nodes[g])]]
    /\ pc' = "caps"
    /\ UNCHANGED <<args, self, adj, label, reconstructs, call2, ext, layer_i, masks,
                   number_of_nodes, hidden_list, hidden_shape,
                   class_capsule_output, res, res2, ret, ret2>>

\* lines 99-102
Capsules ==
    /\ pc = "caps"
    /\ class_capsule_output' = squeeze_output(b_of(adj), self, ext.caps, weighted)
    /\ pc' = "loss"
    /\ UNCHANGED <<args, self, adj, label, reconstructs, call2, ext, layer_i, masks,
                   number_of_nodes, hidden_list, hidden_shape, attn, weighted,
                   res, res2, ret, ret2>>

\* lines 104-105, for the call and for the second call on the same batch
CalculateLoss ==
    /\ pc = "loss"
    /\ res' = calculate_loss(args, self, class_capsule_output, label, reconstructs)
    /\ res2' = calculate_loss(args, self, class_capsule_output, call2.label,
                              call2.reconstructs)
    /\ pc' = "return"
    /\ UNCHANGED <<args, self, adj, label, reconstructs, call2, ext, layer_i, masks,
                   number_of_nodes, hidden_list, hidden_shape, attn, weighted,
                   class_capsule_output, ret, ret2>>

\* line 106
Return ==
    /\ pc = "return"
    /\ ret' = forward_return(class_capsule_output, res, label)
    /\ ret2' = forward_return(class_capsule_output, res2, call2.label)
    /\ pc' = "done"
    /\ UNCHANGED <<args, self, adj, label, reconstructs, call2, ext, layer_i, masks,
                   number_of_nodes, hidden_list, hidden_shape, attn, weighted,
                   class_capsule_output, res, res2>>

Next ==
    \/ ComputeMasks
    \/ GcnLayer
    \/ ConcatHidden
    \/ Attend
    \/ Capsules
    \/ CalculateLoss
    \/ Return

Spec == Init /\ [][Next]_vars

(***************************************************************************)
(* Properties.                                                             *)
(***************************************************************************)
Attended == pc \in {"caps", "loss", "return", "done"}
Concatenated == pc \in {"attn", "caps", "loss", "return", "done"}
Masked == pc # "start"

Graphs == 1..b_of(adj)
Nodes == 1..n_of(adj)

HasEdge(g, i) == \E j \in Nodes : adj[g][i][j] # 0
ValidNodes(g) == {i \in Nodes : HasEdge(g, i)}

\* the largest element of a finite set of naturals, 0 for the empty set
SetMax(S) == IF S = {} THEN 0 ELSE CHOOSE x \in S : \A y \in S : y <= x

RECURSIVE SetSum(_, _)
SetSum(f, S) ==
    IF S = {} THEN 0
    ELSE LET x == CHOOSE y \in S : TRUE IN f[x] + SetSum(f, S \ {x})

TrueNormHigh(r, lbl) ==
    \A g \in 1..r.batch_size :
        /\ r.v_mag[g][lbl[g] + 1] >= m_plus
        /\ \A k \in 1..r.num_class : k # lbl[g] + 1 => r.v_mag[g][k] <= m_minus

MarginZero(r) == r.status = "ok" /\ ~r.margin_loss.nan /\ r.margin_loss.num = 0

\* C1 as stated: for every lambda_val, a zero margin loss means that in
\* every graph the true class norm is >= 0.9 and every other norm is <= 0.1
C1_AnyLambda == MarginZero(res) => TrueNormHigh(res, label)

\* C1, amended: for every lambda_val > 0, a zero margin loss means that in
\* every graph the true class norm is >= 0.9 and every other norm is <= 0.1
C1_PositiveLambda ==
    (MarginZero(res) /\ args.lambda_val > 0) => TrueNormHigh(res, label)

C1_Witness == MarginZero(res) /\ args.lambda_val > 0 /\ pc = "done"

\* C2: with the decoder output fixed, the reconstruction loss for the
\* target k*t, k > 0, equals the one for the target t
C2_RescaleInvariant ==
    ( /\ res.status = "ok"
      /\ res2.status = "ok"
      /\ call2.label = label
      /\ \E k \in RescaleBy : k > 0 /\ call2.reconstructs = Rescale(reconstructs, k) )
    => /\ res2.reconstruction_output = res.reconstruction_output
       /\ res2.reconstruction_loss = res.reconstruction_loss

Scenario ==
    /\ adj = << FullAdj(3) >>
    /\ self.num_classes = 2
    /\ label = << 0 >>
    /\ reconstructs = << ScenarioRow >>

\* C3: on the batch of one fully connected graph of three nodes, two classes,
\* label 0 and target [1, 0, 0.5], forward returns: calculate_loss reads
\* batch_size 1 and num_class 2 from a tensor that kept its batch axis, the
\* decoder output has shape (1, 3) and the loss is finite and nonnegative
C3_BatchOfOne ==
    (Scenario /\ pc = "done") =>
        /\ ~ret.raised
        /\ class_capsule_output.shape[1] = 1
        /\ res.batch_size = 1
        /\ res.num_class = 2
        /\ Len(res.reconstruction_output) = 1
        /\ Len(res.reconstruction_output[1]) = 3
        /\ ~ret.loss.nan
        /\ ret.loss.num >= 0

\* C4: in every graph with a valid node, the attention weight of every node
\* whose mask is 0 (every node without an edge) is exactly 0 and the weights
\* of the valid nodes sum to 1
C4_MaskedAttention ==
    Attended =>
        \A g \in Graphs :
            ValidNodes(g) # {} =>
                /\ \A i \in Nodes :
                      (masks[g][i] = 0 \/ ~HasEdge(g, i)) =>
                          ~attn[g][i].nan /\ attn[g][i].num = 0
                /\ \A i \in Nodes : ~attn[g][i].nan /\ attn[g][i].den > 0
                /\ \A i \in Nodes :
                      SetSum([j \in Nodes |-> attn[g][j].num], ValidNodes(g))
                          = attn[g][i].den

C4_Witness ==
    /\ Attended
    /\ \E g \in Graphs : \E i, j \in Nodes :
          /\ HasEdge(g, i)
          /\ ~HasEdge(g, j)
          /\ ext.logits[g][j] > ext.logits[g][i]
          /\ attn[g][i].num = attn[g][i].den

\* C5: a graph without a valid node gets an all-zero weighted hidden
\* representation, with no nan in it
C5_NoValidNode ==
    Attended =>
        \A g \in Graphs :
            ValidNodes(g) = {} =>
                \A i \in Nodes : ~weighted[g][i].nan /\ weighted[g][i].num = 0

\* C6: for nonnegative adjacency entries, node i is marked valid iff its row
\* has a nonzero entry, and number_of_nodes is the count of the valid nodes
C6_NodeCount ==
    Masked =>
        \A g \in Graphs :
            /\ \A i \in Nodes : (masks[g][i] # 0) <=> HasEdge(g, i)
            /\ number_of_nodes[g] = Cardinality(ValidNodes(g))

\* C7: the concatenated hidden representation has c*L capsules of dimension
\* d per node; its flattened width c*L*d is the width the attention scorer
\* and the graph capsule layer were constructed with
C7_HiddenWidth ==
    Concatenated =>
        /\ hidden_shape = << b_of(adj), n_of(adj),
                             args.num_gcn_channels * args.num_gcn_layers,
                             args.node_embedding_size >>
        /\ hidden_shape[3] * hidden_shape[4]
              = args.num_gcn_channels * args.num_gcn_layers * args.node_embedding_size
        /\ hidden_shape[3] * hidden_shape[4] = self.attention_in
        /\ self.graph_capsule[1] = hidden_shape[3]
        /\ self.graph_capsule[2] = hidden_shape[4]

C7_Witness ==
    /\ pc = "attn"
    /\ args.num_gcn_layers = 3
    /\ args.num_gcn_channels = 2
    /\ args.node_embedding_size = 2
    /\ hidden_shape[3] = 6

SqErr(r, g, d) ==
    (r.reconstruction_output[g][d] - r.reconstruct_value[g][d])
    * (r.reconstruction_output[g][d] - r.reconstruct_value[g][d])

NegDims(g) == {d \in 1..Len(reconstructs[g]) : reconstructs[g][d] < RecThreshold}
PosDims(g) == {d \in 1..Len(reconstructs[g]) : ~(reconstructs[g][d] < RecThreshold)}

\* C8: the reconstruction error of a graph is the largest squared error over
\* the dimensions whose target is < 1e-5 plus the largest over the others,
\* an empty set giving 0 and neither maximum depending on the other set;
\* reconstruction_loss is the batch mean of these sums
C8_TwoMaxima ==
    (res.status = "ok" /\ ~res.reconstruction_loss.nan) =>
        /\ \A g \in 1..res.batch_size :
              /\ res.neg_loss[g] = SetMax({SqErr(res, g, d) : d \in NegDims(g)})
              /\ res.pos_loss[g] = SetMax({SqErr(res, g, d) : d \in PosDims(g)})
        /\ res.reconstruction_loss.num
              = SumSeq([g \in 1..res.batch_size |->
                    SetMax({SqErr(res, g, d) : d \in NegDims(g)})
                    + SetMax({SqErr(res, g, d) : d \in PosDims(g)})])
        /\ res.reconstruction_loss.den = res.batch_size * Scale * Scale

C8_Witness ==
    /\ res.status = "ok"
    /\ ~res.reconstruction_loss.nan
    /\ \E g \in 1..res.batch_size : PosDims(g) = {} /\ res.neg_loss[g] > 0
    /\ \E g \in 1..res.batch_size :
          /\ NegDims(g) # {}
          /\ PosDims(g) # {}
          /\ res.neg_loss[g] > res.pos_loss[g]
          /\ res.pos_loss[g] > 0

\* C9: T_c has exactly one 1 per graph, at the label's column, and the
\* decoder's input for a graph is that graph's true class capsule vector
C9_OneHotMask ==
    res.status = "ok" =>
        \A g \in 1..res.batch_size :
            /\ \A k \in 1..res.num_class : res.T_c[g][k] \in {0, 1}
            /\ SumSeq(res.T_c[g]) = 1
            /\ res.T_c[g][label[g] + 1] = 1
            /\ res.capsule_masked[g] = class_capsule_output.data[g][label[g] + 1]

C9_Witness ==
    /\ res.status = "ok"
    /\ \E g, h \in 1..res.batch_size : label[g] # label[h]
    /\ \A g \in 1..res.batch_size : \A k \in 1..res.num_class :
          k # label[g] + 1 =>
              /\ class_capsule_output.data[g][k] # res.capsule_masked[g]
              /\ class_capsule_output.data[g][k] # << 0, 0 >>

\* C10: two calls on the same batch and parameters with other labels and
\* targets return the same class capsules and predictions, and each returns
\* its own label unchanged
C10_LabelIndependent ==
    (pc = "done" /\ ~ret.raised /\ ~ret2.raised) =>
        /\ ret.class_capsule_output = ret2.class_capsule_output
        /\ ret.pred = ret2.pred
        /\ ret.pred = pred_of(v_mag_of(ext.caps))
        /\ ret.label = label
        /\ ret2.label = call2.label

C10_Witness ==
    /\ pc = "done"
    /\ ~ret.raised
    /\ ~ret2.raised
    /\ label # call2.label
    /\ reconstructs # call2.reconstructs
    /\ ret.loss # ret2.loss
    /\ ret.pred # call2.label

====
